---------------------------- MODULE Spec2Model ----------------------------
(***************************************************************************)
(* Manual control mode of the auto-syringe firmware                        *)
(* (Marlin/src/feature/manual_control.cpp): the serial command             *)
(* interpreter, the blocking step actuator and the ADC-driven Y position   *)
(* tracker, as one state machine.                                          *)
(*                                                                         *)
(* A scheduler tick (manual_control_task) is split at its two positions:   *)
(* pc = "tracker" (line 346, the call of manual_adc_control_y) and         *)
(* pc = "drain" (line 348, the loop over the bytes the serial port holds). *)
(* Text is a sequence of one-character strings.                            *)
(***************************************************************************)
EXTENDS Integers, Sequences, FiniteSets, TLC

VARIABLES
  adc_control_active,    \* static bool adc_control_active
  adc_current_position,  \* static int32_t adc_current_position
  adc_target_position,   \* static int32_t adc_target_position
  position_range,        \* static int32_t position_range
  last_adc_move,         \* static uint32_t last_adc_move
  adc_buffer,            \* static uint16_t adc_buffer[ADC_SAMPLES] (1-based here)
  adc_buffer_index,      \* static uint8_t adc_buffer_index
  adc_buffer_filled,     \* static bool adc_buffer_filled
  command_buffer,        \* command_buffer[0 .. buffer_pos-1]; buffer_pos is its length
  enable_pin,            \* level of X_ENABLE_PIN (shared by all axes, active LOW)
  dir_pin,               \* level of each axis's direction pin
  now,                   \* millis() as read by the latest tracker increment
  rx,                    \* bytes waiting in MYSERIAL1
  pc,                    \* position inside manual_control_task
  pulses,                \* step pulses the latest step issued, per axis
  diag,                  \* diagnostic lines the latest step printed
  sampled,               \* whether the tracker increment of this tick sampled
  cmdLog,                \* lines interpreted so far in this tick
  pushed_lo,             \* least reading pushed into adc_buffer so far
  pushed_hi,             \* greatest reading pushed into adc_buffer so far
  recent,                \* the latest readings pushed, at most ADC_SAMPLES, in order
  y_net,                 \* Y step pulses issued so far, forward minus backward
  therm_adc,             \* the reading the latest h or b line took (-1: none yet)
  move,                  \* the blocking move in progress, pulse by pulse
  enable_before          \* level of X_ENABLE_PIN before the latest step

vars == <<adc_control_active, adc_current_position, adc_target_position,
          position_range, last_adc_move, adc_buffer, adc_buffer_index,
          adc_buffer_filled, command_buffer, enable_pin, dir_pin, now, rx, pc,
          pulses, diag, sampled, cmdLog, pushed_lo, pushed_hi, recent,
          y_net, therm_adc, move, enable_before>>

trackerVars == <<adc_current_position, adc_target_position, last_adc_move,
                 adc_buffer, adc_buffer_index, adc_buffer_filled>>

\* What an observer of the analog input has seen pushed.
pushedVars == <<pushed_lo, pushed_hi, recent>>

----------------------------------------------------------------------------
(* Program constants *)

ADC_SAMPLES == 8
ADC_FULL_SCALE == 4095
DEFAULT_RANGE == 6400
RANGE_MAX == 50000
STEPS_MAX == 10000
DEADZONE == 5
MAX_STEPS_PER_UPDATE == 10
UPDATE_MS == 10
BUFFER_LIMIT == 31
UINT16 == 65536
INT32_MAX == 2147483647

Axes == {"X", "Y", "Z", "E"}
Levels == {"LOW", "HIGH"}

(* Bounds of the model *)

\* Ticks of the running system, counted in the shortest time between two ticks.
MaxTicks == 6
MaxDigits == 5

----------------------------------------------------------------------------
(* Arithmetic of the target: C integer division truncates toward zero and  *)
(* fixed-width values wrap.                                                *)

Abs(x) == IF x < 0 THEN -x ELSE x

TruncDiv(a, b) ==
  IF (a >= 0) = (b > 0) THEN Abs(a) \div Abs(b) ELSE -(Abs(a) \div Abs(b))

Min(a, b) == IF a < b THEN a ELSE b

Max(a, b) == IF a > b THEN a ELSE b

ToUint16(x) == x % UINT16


----------------------------------------------------------------------------
(* Text *)

DigitChars == <<"0", "1", "2", "3", "4", "5", "6", "7", "8", "9">>

IsDigit(c) == \E i \in 1..10 : DigitChars[i] = c

DigitVal(c) == (CHOOSE i \in 1..10 : DigitChars[i] = c) - 1

Terminators == {"\n", "\r"}

\* Bytes outside 32..126 that are no line terminator (TAB here).
NonPrintable == {"\t"}

IsPrintable(c) == c \notin Terminators /\ c \notin NonPrintable

\* strncmp(command, prefix, Len(prefix)) == 0
HasPrefix(command, prefix) ==
  Len(command) >= Len(prefix) /\ SubSeq(command, 1, Len(prefix)) = prefix

NoPulses == [a \in Axes |-> 0]

----------------------------------------------------------------------------
(* Sample filter: lines 131-160 of manual_adc_control_y *)

\* adc_buffer[adc_buffer_index] = raw_adc (the index is 0-based in the code)
PushSample(buf, idx, raw) == [buf EXCEPT ![idx + 1] = raw]

\* Faulty variant: the index wraps one slot early.
NextIndexShort(idx) == (idx + 1) % (ADC_SAMPLES - 1)

NextIndex(idx) == (idx + 1) % ADC_SAMPLES

NextFilled(idx, filled) == filled \/ NextIndex(idx) = 0

\* Faulty variant: all eight slots used from the first push on.
SamplesToUseAll(idx, filled) == ADC_SAMPLES

SamplesToUse(idx, filled) == IF filled THEN ADC_SAMPLES ELSE idx

\* The element of a set of one element.  The passes of the sort bind the
\* array they receive (t) through it, so that the array is computed once,
\* as sorted_buffer is, however often the pass reads it.
TheOne(S) == CHOOSE r \in S : TRUE

Swap(s, j) == [s EXCEPT ![j] = s[j + 1], ![j + 1] = s[j]]

RECURSIVE InnerPass(_, _, _)
InnerPass(s, j, last) ==
  IF j > last THEN s
  ELSE TheOne({InnerPass(IF t[j] > t[j + 1] THEN Swap(t, j) ELSE t, j + 1, last)
                 : t \in {s}})

RECURSIVE OuterPass(_, _)
OuterPass(s, i) ==
  TheOne({IF i >= Len(t) - 1 THEN t
          ELSE OuterPass(InnerPass(t, 1, Len(t) - i - 1), i + 1) : t \in {s}})

BubbleSort(s) == OuterPass(s, 0)

\* Faulty variant: the lower of the two middle elements of an even count.
MedianIndexLower(n) == ((n - 1) \div 2) + 1

\* sorted_buffer[samples_to_use / 2], 0-based in the code
MedianIndex(n) == (n \div 2) + 1

MedianOf(buf, n) == BubbleSort(SubSeq(buf, 1, n))[MedianIndex(n)]

\* The filtered value of the buffer as it stands (defined after the first push).
FilteredValue ==
  MedianOf(adc_buffer, SamplesToUse(adc_buffer_index, adc_buffer_filled))

----------------------------------------------------------------------------
(* Position tracker: lines 163-197 of manual_adc_control_y *)

\* map(x, in_min, in_max, out_min, out_max), in long arithmetic
Map(x, in_min, in_max, out_min, out_max) ==
  TruncDiv((x - in_min) * (out_max - out_min), in_max - in_min) + out_min

\* Faulty variant: the range not halved.
MapTargetWhole(x, range) == Map(x, 0, ADC_FULL_SCALE, -range, range)

MapTarget(x, range) ==
  Map(x, 0, ADC_FULL_SCALE, TruncDiv(-range, 2), TruncDiv(range, 2))

\* Faulty variant: the deadzone test written >= instead of >.
InDeadzoneOffByOne(error) == ~(Abs(error) >= DEADZONE)

\* Faulty variant: a deadzone four times as wide.
InDeadzoneWide(error) == ~(Abs(error) > 4 * DEADZONE)

InDeadzone(error) == ~(Abs(error) > DEADZONE)

\* Faulty variant: the cap of 10 steps per update left out.
StepsToMoveUnlimited(error) == ToUint16(Abs(error))

StepsToMove(error) == Min(ToUint16(Abs(error)), MAX_STEPS_PER_UPDATE)

\* Faulty variant: no rate gate.
RateGateAlwaysOpen(t) == TRUE

\* now - last_adc_move < 10, with millis() below its wrap-around
RateGateOpen(t) == ~(t - last_adc_move < UPDATE_MS)

\* Faulty variant: the test of adc_control_active left out.
TrackerSkipsGateOnly(t) == ~RateGateOpen(t)

\* Lines 125-128: the two early returns
TrackerSkips(t) == ~adc_control_active \/ ~RateGateOpen(t)

ManualAdcControlY(t, raw) ==
  IF TrackerSkips(t)
  THEN /\ UNCHANGED <<trackerVars, enable_pin, dir_pin>>
       /\ pulses' = NoPulses
       /\ sampled' = FALSE
  ELSE LET buf    == PushSample(adc_buffer, adc_buffer_index, raw)
           idx    == NextIndex(adc_buffer_index)
           filled == NextFilled(adc_buffer_index, adc_buffer_filled)
           median == MedianOf(buf, SamplesToUse(idx, filled))
           target == MapTarget(median, position_range)
           error  == target - adc_current_position
           dirn   == error > 0
           steps  == StepsToMove(error)
       IN  /\ adc_buffer' = buf
           /\ adc_buffer_index' = idx
           /\ adc_buffer_filled' = filled
           /\ adc_target_position' = target
           /\ sampled' = TRUE
           /\ IF InDeadzone(error)
              THEN /\ UNCHANGED <<adc_current_position, last_adc_move,
                                  enable_pin, dir_pin>>
                   /\ pulses' = NoPulses
              ELSE /\ enable_pin' = "LOW"
                   /\ dir_pin' = [dir_pin EXCEPT
                                    !["Y"] = IF dirn THEN "HIGH" ELSE "LOW"]
                   /\ pulses' = [NoPulses EXCEPT !["Y"] = steps]
                   /\ adc_current_position' =
                        adc_current_position + (IF dirn THEN steps ELSE -steps)
                   /\ last_adc_move' = t

----------------------------------------------------------------------------
(* Step actuator and stepper enable: lines 88-122 *)

AxisOf(c) == CASE c = "x" -> "X" [] c = "y" -> "Y" [] c = "z" -> "Z" [] c = "e" -> "E"

\* Faulty variant: a jog of the tracked axis also counted into adc_current_position.
ManualMoveAxisCounting(axis, direction, steps) ==
  /\ enable_pin' = "LOW"
  /\ dir_pin' = [dir_pin EXCEPT ![axis] = IF direction THEN "HIGH" ELSE "LOW"]
  /\ pulses' = [NoPulses EXCEPT ![axis] = steps]
  /\ diag' = <<"Moving", "Move complete">>
  /\ adc_current_position' =
       IF axis = "Y"
       THEN adc_current_position + (IF direction THEN steps ELSE -steps)
       ELSE adc_current_position

\* Faulty variant: the enable line left as the jog finds it.
ManualMoveAxisNoEnable(axis, direction, steps) ==
  /\ UNCHANGED enable_pin
  /\ dir_pin' = [dir_pin EXCEPT ![axis] = IF direction THEN "HIGH" ELSE "LOW"]
  /\ pulses' = [NoPulses EXCEPT ![axis] = steps]
  /\ diag' = <<"Moving", "Move complete">>
  /\ UNCHANGED adc_current_position

ManualMoveAxis(axis, direction, steps) ==
  /\ enable_pin' = "LOW"
  /\ dir_pin' = [dir_pin EXCEPT ![axis] = IF direction THEN "HIGH" ELSE "LOW"]
  /\ pulses' = [NoPulses EXCEPT ![axis] = steps]
  /\ diag' = <<"Moving", "Move complete">>
  /\ UNCHANGED adc_current_position

\* Faulty variant: the enable line left as it is.
ManualEnableSteppersNoop == UNCHANGED enable_pin

ManualEnableSteppers == enable_pin' = "LOW"

ManualDisableSteppers == enable_pin' = "HIGH"

----------------------------------------------------------------------------
(* Thermistor read-out: lines 33-86.  The reading is kept as the exact     *)
(* fraction adc / 4095 of the supply; only the kind of line printed is     *)
(* recorded.                                                               *)

PULLUP_OHMS == 4700
OPEN_OHMS == 999999

ThermistorText(adc) ==
  IF adc >= ADC_FULL_SCALE THEN "SHORT"                 \* resistance 0.0
  ELSE IF adc <= 0 THEN "kOhm"                          \* resistance 999999.0
  ELSE IF adc * PULLUP_OHMS > OPEN_OHMS * (ADC_FULL_SCALE - adc) THEN "OPEN"
  ELSE IF adc * PULLUP_OHMS < ADC_FULL_SCALE - adc THEN "SHORT"
  ELSE IF adc * PULLUP_OHMS >= 1000 * (ADC_FULL_SCALE - adc) THEN "kOhm"
  ELSE "Ohm"

----------------------------------------------------------------------------
(* Command interpreter: lines 218-338 *)

\* while (*numStart >= '0' && *numStart <= '9'): the place after the last
\* digit of the run that starts at place i
DigitsEnd(command, i) ==
  CHOOSE j \in i..(Len(command) + 1) :
    /\ \A k \in i..(j - 1) : IsDigit(command[k])
    /\ j = Len(command) + 1 \/ ~IsDigit(command[j])

\* steps = steps * 10 + (*numStart - '0') in a uint16_t accumulator
Step16(acc, c) == ToUint16(acc * 10 + DigitVal(c))

\* The same step in an int32_t accumulator: -1 once a step overflows it
Step32(acc, c) ==
  IF acc < 0 \/ acc > (INT32_MAX - DigitVal(c)) \div 10 THEN -1
  ELSE acc * 10 + DigitVal(c)

\* The loop over the digits command[from..to], in order: the first half
\* of the digits, then the second half from the accumulator they left.
RECURSIVE Digits16(_, _, _, _)
Digits16(acc, command, from, to) ==
  IF from > to THEN acc
  ELSE IF from = to THEN Step16(acc, command[from])
  ELSE TheOne({Digits16(a, command, (from + to) \div 2 + 1, to)
                 : a \in {Digits16(acc, command, from, (from + to) \div 2)}})

RECURSIVE Digits32(_, _, _, _)
Digits32(acc, command, from, to) ==
  IF from > to THEN acc
  ELSE IF from = to THEN Step32(acc, command[from])
  ELSE TheOne({Digits32(a, command, (from + to) \div 2 + 1, to)
                 : a \in {Digits32(acc, command, from, (from + to) \div 2)}})

\* The digits from place i, in a uint16_t accumulator (parse_steps)
ParseDigits16(command, i, acc) ==
  Digits16(acc, command, i, DigitsEnd(command, i) - 1)

\* The digits from place i, in an int32_t accumulator (adc_range)
ParseDigits32(command, i, acc) ==
  Digits32(acc, command, i, DigitsEnd(command, i) - 1)

\* Signed overflow is undefined: the accumulator may then hold any value.
OverflowOutcomes == {-INT32_MAX, -1, 0, 1, RANGE_MAX, RANGE_MAX + 1, INT32_MAX}

RangeValues(command) ==
  LET v == ParseDigits32(command, 10, 0)
  IN  IF v < 0 THEN OverflowOutcomes ELSE {v}

\* Faulty variant: the upper limit written < instead of <=.
StepsInLimitExclusive(steps) == steps > 0 /\ steps < STEPS_MAX

StepsInLimit(steps) == steps > 0 /\ steps <= STEPS_MAX

parse_steps(command, defaultSteps) ==
  IF Len(command) = 2 THEN defaultSteps
  ELSE LET steps == ParseDigits16(command, 3, 0)
       IN  IF StepsInLimit(steps) THEN steps ELSE defaultSteps

DefaultSteps(c) == CASE c \in {"x", "y"} -> 100 [] c = "z" -> 10 [] c = "e" -> 50

JogPrefixes ==
  {<<a, sg>> : a \in {"x", "y", "z", "e"}, sg \in {"+", "-"}}

IsJog(command) == \E p \in JogPrefixes : HasPrefix(command, p)

\* Faulty variant: the lower limit written >= instead of >.
RangeAcceptedZero(new_range) == new_range >= 0 /\ new_range <= RANGE_MAX

RangeAccepted(new_range) == new_range > 0 /\ new_range <= RANGE_MAX

Cmd_adc_on == <<"a", "d", "c", "_", "o", "n">>
Cmd_adc_off == <<"a", "d", "c", "_", "o", "f", "f">>
Cmd_adc_zero == <<"a", "d", "c", "_", "z", "e", "r", "o">>
Cmd_adc_range == <<"a", "d", "c", "_", "r", "a", "n", "g", "e">>
Cmd_on == <<"o", "n">>
Cmd_off == <<"o", "f", "f">>
Cmd_help == <<"h", "e", "l", "p">>

SetRange(command) ==
  IF Len(command) > Len(Cmd_adc_range)
  THEN \E new_range \in RangeValues(command) :
         IF RangeAccepted(new_range)
         THEN /\ position_range' = new_range
              /\ diag' = <<"Position range set to">>
         ELSE /\ UNCHANGED position_range
              /\ diag' = <<>>
  ELSE /\ UNCHANGED position_range
       /\ diag' = <<"Current position range">>

ZeroPosition == adc_current_position' = 0

\* strcmp(command, "h") == 0 or strcmp(command, "b") == 0
ReadsThermistor(command) == command \in {<<"h">>, <<"b">>}

ProcessManualCommand(command, adc) ==
  IF ReadsThermistor(command) THEN
    /\ diag' = <<ThermistorText(adc)>>
    /\ pulses' = NoPulses
    /\ UNCHANGED <<adc_control_active, adc_current_position, position_range,
                   enable_pin, dir_pin>>
  ELSE IF IsJog(command) THEN
    /\ ManualMoveAxis(AxisOf(command[1]), command[2] = "+",
                      parse_steps(command, DefaultSteps(command[1])))
    /\ UNCHANGED <<adc_control_active, position_range>>
  ELSE IF command = Cmd_on THEN
    /\ ManualEnableSteppers
    /\ diag' = <<"Steppers ENABLED">>
    /\ pulses' = NoPulses
    /\ UNCHANGED <<adc_control_active, adc_current_position, position_range,
                   dir_pin>>
  ELSE IF command = Cmd_off THEN
    /\ ManualDisableSteppers
    /\ diag' = <<"Steppers DISABLED">>
    /\ pulses' = NoPulses
    /\ UNCHANGED <<adc_control_active, adc_current_position, position_range,
                   dir_pin>>
  ELSE IF command = Cmd_adc_on THEN
    /\ adc_control_active' = TRUE
    /\ ManualEnableSteppers
    /\ diag' = <<"Steppers ENABLED", "ADC Position Control ENABLED">>
    /\ pulses' = NoPulses
    /\ UNCHANGED <<adc_current_position, position_range, dir_pin>>
  ELSE IF command = Cmd_adc_off THEN
    /\ adc_control_active' = FALSE
    /\ diag' = <<"ADC Position Control DISABLED">>
    /\ pulses' = NoPulses
    /\ UNCHANGED <<adc_current_position, position_range, enable_pin, dir_pin>>
  ELSE IF command = Cmd_adc_zero THEN
    /\ ZeroPosition
    /\ diag' = <<"Current position reset to zero">>
    /\ pulses' = NoPulses
    /\ UNCHANGED <<adc_control_active, position_range, enable_pin, dir_pin>>
  ELSE IF HasPrefix(command, Cmd_adc_range) THEN
    /\ SetRange(command)
    /\ pulses' = NoPulses
    /\ UNCHANGED <<adc_control_active, adc_current_position, enable_pin, dir_pin>>
  ELSE IF command = Cmd_help THEN
    /\ diag' = <<"Commands:">>
    /\ pulses' = NoPulses
    /\ UNCHANGED <<adc_control_active, adc_current_position, position_range,
                   enable_pin, dir_pin>>
  ELSE
    /\ diag' = IF Len(command) > 0 THEN <<"Unknown command">> ELSE <<>>
    /\ pulses' = NoPulses
    /\ UNCHANGED <<adc_control_active, adc_current_position, position_range,
                   enable_pin, dir_pin>>

----------------------------------------------------------------------------
(* What an observer of the pins records *)

\* The latest ADC_SAMPLES readings of a sequence of readings.
LatestOf(readings) ==
  IF Len(readings) <= ADC_SAMPLES THEN readings
  ELSE SubSeq(readings, Len(readings) - ADC_SAMPLES + 1, Len(readings))

\* The Y pulses of one step, counted forward (Y_DIR_PIN HIGH) or backward.
NetY(issued, dirs) == IF dirs["Y"] = "HIGH" THEN issued["Y"] ELSE -issued["Y"]

\* No blocking move is in progress.
NoMove ==
  [kind |-> "none", axis |-> "X", steps |-> 0, i |-> 0, quiet |-> 0,
   fed |-> FALSE]

NothingObserved ==
  /\ pushed_lo = ADC_FULL_SCALE
  /\ pushed_hi = 0
  /\ recent = <<>>
  /\ y_net = 0
  /\ therm_adc = -1
  /\ move = NoMove
  /\ enable_before = enable_pin

----------------------------------------------------------------------------
(* The scheduler tick: manual_control_task, lines 341-362 *)

\* Line 346: one increment of the tracker.  t is millis(), raw the bed ADC
\* reading, chunk the bytes the serial port holds when the loop of line 348
\* starts.
TrackerStep(t, raw, chunk) ==
  /\ pc = "tracker"
  /\ now' = t
  /\ ManualAdcControlY(t, raw)
  /\ rx' = chunk
  /\ pc' = "drain"
  /\ diag' = <<>>
  /\ cmdLog' = <<>>
  /\ IF sampled'
     THEN /\ pushed_lo' = Min(pushed_lo, raw)
          /\ pushed_hi' = Max(pushed_hi, raw)
          /\ recent' = LatestOf(Append(recent, raw))
     ELSE UNCHANGED pushedVars
  /\ y_net' = y_net + NetY(pulses', dir_pin')
  /\ enable_before' = enable_pin
  /\ UNCHANGED <<adc_control_active, position_range, command_buffer,
                 therm_adc, move>>

\* Faulty variant: the test buffer_pos < 31 left out.
AcceptByteUnbounded(buf, c) == IF IsPrintable(c) THEN Append(buf, c) ELSE buf

\* Lines 349-360: the loop body, one byte.
AcceptByte(buf, c) ==
  IF IsPrintable(c) /\ Len(buf) < BUFFER_LIMIT THEN Append(buf, c) ELSE buf

\* Lines 349-360: the loop body on the byte c.  s is the loop's state: the
\* buffer, the number of bytes read, and whether a line is complete (a
\* terminator read with buffer_pos > 0); nothing is read after that.
ReadByte(s, c) ==
  IF s.complete THEN s
  ELSE IF c \in Terminators
       THEN [line |-> s.line, used |-> s.used + 1, complete |-> Len(s.line) > 0]
       ELSE [line |-> AcceptByte(s.line, c), used |-> s.used + 1,
             complete |-> FALSE]

\* The loop of line 348 over bytes[from..to], in order: the first half of
\* the bytes, then the second half from the state the first half left.
RECURSIVE ReadBytes(_, _, _, _)
ReadBytes(s, bytes, from, to) ==
  IF from > to THEN s
  ELSE IF from = to THEN ReadByte(s, bytes[from])
  ELSE TheOne({ReadBytes(t, bytes, (from + to) \div 2 + 1, to)
                 : t \in {ReadBytes(s, bytes, from, (from + to) \div 2)}})

\* The loop of line 348 up to the first line it completes, or to the last
\* byte waiting: the buffer then, the bytes left, and whether a line is
\* complete.
ReadLine(buf, bytes) ==
  LET s == ReadBytes([line |-> buf, used |-> 0, complete |-> FALSE],
                     bytes, 1, Len(bytes))
  IN  [line |-> s.line, rest |-> SubSeq(bytes, s.used + 1, Len(bytes)),
       complete |-> s.complete]

\* Lines 348-360: the loop runs until it has interpreted one line or the
\* port is empty.  adc is the thermistor reading an h or b line would take.
DrainLine(adc) ==
  /\ pc = "drain"
  /\ rx # <<>>
  /\ UNCHANGED <<adc_target_position, last_adc_move, adc_buffer,
                 adc_buffer_index, adc_buffer_filled, now, pc, sampled,
                 pushedVars, move>>
  /\ LET r == ReadLine(command_buffer, rx)
     IN  /\ rx' = r.rest
         /\ therm_adc' = IF r.complete /\ ReadsThermistor(r.line)
                         THEN adc ELSE therm_adc
         /\ IF r.complete
            THEN /\ ProcessManualCommand(r.line, adc)
                 /\ command_buffer' = <<>>
                 /\ cmdLog' = Append(cmdLog, r.line)
            ELSE /\ command_buffer' = r.line
                 /\ pulses' = NoPulses
                 /\ diag' = <<>>
                 /\ UNCHANGED <<adc_control_active, adc_current_position,
                                position_range, enable_pin, dir_pin, cmdLog>>
  /\ y_net' = y_net + NetY(pulses', dir_pin')
  /\ enable_before' = enable_pin

\* MYSERIAL1.available() == 0: manual_control_task returns.
DrainDone ==
  /\ pc = "drain"
  /\ rx = <<>>
  /\ pc' = "tracker"
  /\ pulses' = NoPulses
  /\ diag' = <<>>
  /\ sampled' = FALSE
  /\ cmdLog' = <<>>
  /\ UNCHANGED <<adc_control_active, trackerVars, position_range,
                 command_buffer, enable_pin, dir_pin, now, rx, pushedVars,
                 y_net, therm_adc, move>>
  /\ enable_before' = enable_pin

----------------------------------------------------------------------------
(* Inputs *)

EOL == <<"\n">>

\* Bed ADC readings offered to the tracker.
AdcValues == {0, ADC_FULL_SCALE}

\* Thermistor readings offered to h and b.
ThermValues == {0, 2048, 4094, ADC_FULL_SCALE}

\* Milliseconds between two ticks.
TimeSteps == {5, 10}

\* Lines the operator sends to the running system.
OperatorLines ==
  { Cmd_adc_on, Cmd_adc_off, Cmd_adc_zero, Cmd_off,
    Cmd_adc_range,
    Cmd_adc_range \o <<"0">>,
    Cmd_adc_range \o <<"3">>,
    Cmd_adc_range \o <<"1", "2">>,
    <<"y", "+", "7">> }

Chunks ==
  {<<>>} \cup {l \o EOL : l \in OperatorLines}
         \cup {Cmd_adc_zero \o EOL \o Cmd_adc_zero \o EOL}

----------------------------------------------------------------------------
(* The running system *)

Init ==
  /\ adc_control_active = FALSE
  /\ adc_current_position = 0
  /\ adc_target_position = 0
  /\ position_range = DEFAULT_RANGE
  /\ last_adc_move = 0
  /\ adc_buffer = [i \in 1..ADC_SAMPLES |-> 0]
  /\ adc_buffer_index = 0
  /\ adc_buffer_filled = FALSE
  /\ command_buffer = <<>>
  /\ enable_pin = "HIGH"            \* manual_control_init disables the steppers
  /\ dir_pin = [a \in Axes |-> "LOW"]
  /\ now = 0
  /\ rx = <<>>
  /\ pc = "tracker"
  /\ pulses = NoPulses
  /\ diag = <<>>
  /\ sampled = FALSE
  /\ cmdLog = <<>>
  /\ NothingObserved

Tick ==
  \E dt \in TimeSteps, raw \in AdcValues, chunk \in Chunks :
    /\ now + dt <= MaxTicks * 5
    /\ TrackerStep(now + dt, raw, chunk)

\* The readings analogRead may give the line the loop completes next: any of
\* ThermValues for h and b, which alone read the thermistor inputs.
ReadingsTaken ==
  LET r == ReadLine(command_buffer, rx)
  IN  IF r.complete /\ ReadsThermistor(r.line) THEN ThermValues ELSE {0}

Drain == \E adc \in ReadingsTaken : DrainLine(adc)

Next == Tick \/ Drain \/ DrainDone

Spec == Init /\ [][Next]_vars

----------------------------------------------------------------------------
(* One command line, interpreted in any state of the tracking flag and of  *)
(* the enable line: the tick has passed line 346 and the port holds the    *)
(* line.                                                                   *)

SuffixChars == {"0", "1", "5", "7"}

Suffixes == UNION {[1..n -> SuffixChars] : n \in 0..MaxDigits}

\* Suffixes with a character that is no digit, and one that overflows int32_t.
OddSuffixes ==
  { <<"5", "a">>, <<"a", "5">>, <<"a">>,
    <<"4", "2", "9", "4", "9", "6", "7", "2", "9", "7">> }

NumericPrefixes == JogPrefixes \cup {Cmd_adc_range}

LineInputs ==
  {p \o sfx : p \in NumericPrefixes, sfx \in Suffixes \cup OddSuffixes}
    \cup {Cmd_adc_on, Cmd_adc_off, Cmd_adc_zero, Cmd_on, Cmd_off, Cmd_help,
          <<"h">>, <<"b">>, <<"b", "o", "g", "u", "s">>}

InitLine ==
  /\ adc_control_active \in BOOLEAN
  /\ adc_current_position = 0
  /\ adc_target_position = 0
  /\ position_range = DEFAULT_RANGE
  /\ last_adc_move = 0
  /\ adc_buffer = [i \in 1..ADC_SAMPLES |-> 0]
  /\ adc_buffer_index = 0
  /\ adc_buffer_filled = FALSE
  /\ command_buffer = <<>>
  /\ enable_pin \in Levels
  /\ dir_pin = [a \in Axes |-> "LOW"]
  /\ now = 0
  /\ rx \in {l \o EOL : l \in LineInputs}
  /\ pc = "drain"
  /\ pulses = NoPulses
  /\ diag = <<>>
  /\ sampled = FALSE
  /\ cmdLog = <<>>
  /\ NothingObserved

NextLine == Drain \/ DrainDone

SpecLine == InitLine /\ [][NextLine]_vars

----------------------------------------------------------------------------
(* The line assembler under long lines: the port holds a line of about the *)
(* size of the command buffer and the line that follows it; a part of the  *)
(* long line may have arrived in an earlier tick.                          *)

MaxLineLen == 34

Zeros(n) == [i \in 1..n |-> "0"]

\* head, zeros, and a closing 7: n characters.
PaddedLine(head, n) == head \o Zeros(n - Len(head) - 1) \o <<"7">>

LongLines ==
  {PaddedLine(head, n) : head \in {<<"x", "+">>, <<"q">>, Cmd_adc_range},
                         n \in 29..MaxLineLen}

\* A long line with a byte in it that is no printable character.
WithTab(line) == SubSeq(line, 1, 2) \o <<"\t">> \o SubSeq(line, 3, Len(line))

LineEnds == {<<"\n">>, <<"\r">>, <<"\r", "\n">>}

FollowingLines == {Cmd_adc_on, <<"y", "-", "7">>, PaddedLine(<<"z", "+">>, 31)}

Streams ==
  {long \o e \o next \o EOL :
     long \in LongLines \cup {WithTab(l) : l \in LongLines},
     e \in LineEnds, next \in FollowingLines}

\* The stream with its first k bytes already in the command buffer.
InitStream ==
  /\ adc_control_active = FALSE
  /\ adc_current_position = 0
  /\ adc_target_position = 0
  /\ position_range = DEFAULT_RANGE
  /\ last_adc_move = 0
  /\ adc_buffer = [i \in 1..ADC_SAMPLES |-> 0]
  /\ adc_buffer_index = 0
  /\ adc_buffer_filled = FALSE
  /\ \E stream \in Streams, k \in {0, 2} :
       /\ command_buffer = SubSeq(stream, 1, k)
       /\ rx = SubSeq(stream, k + 1, Len(stream))
  /\ enable_pin = "HIGH"
  /\ dir_pin = [a \in Axes |-> "LOW"]
  /\ now = 0
  /\ pc = "drain"
  /\ pulses = NoPulses
  /\ diag = <<>>
  /\ sampled = FALSE
  /\ cmdLog = <<>>
  /\ NothingObserved

SpecStream == InitStream /\ [][NextLine]_vars

----------------------------------------------------------------------------
(* Jogs while tracking is active: tracking has been switched on (adc_on),  *)
(* every tick comes 10 ms after the one before and carries at most one jog *)
(* line.                                                                   *)

MaxJogTicks == 3

JogLines == {<<"y", "+", "7">>, <<"y", "-", "7">>, <<"y", "-">>, <<"x", "+", "7">>}

JogChunks == {<<>>} \cup {l \o EOL : l \in JogLines}

JogReadings == {0, 2048, 2052, ADC_FULL_SCALE}

InitTracking ==
  /\ adc_control_active = TRUE
  /\ adc_current_position = 0
  /\ adc_target_position = 0
  /\ position_range = DEFAULT_RANGE
  /\ last_adc_move = 0
  /\ adc_buffer = [i \in 1..ADC_SAMPLES |-> 0]
  /\ adc_buffer_index = 0
  /\ adc_buffer_filled = FALSE
  /\ command_buffer = <<>>
  /\ enable_pin = "LOW"
  /\ dir_pin = [a \in Axes |-> "LOW"]
  /\ now = 0
  /\ rx = <<>>
  /\ pc = "tracker"
  /\ pulses = NoPulses
  /\ diag = <<>>
  /\ sampled = FALSE
  /\ cmdLog = <<>>
  /\ NothingObserved

TrackingTick ==
  \E raw \in JogReadings, chunk \in JogChunks :
    /\ now + UPDATE_MS <= MaxJogTicks * UPDATE_MS
    /\ TrackerStep(now + UPDATE_MS, raw, chunk)

NextTracking == TrackingTick \/ Drain \/ DrainDone

SpecTracking == InitTracking /\ [][NextTracking]_vars

----------------------------------------------------------------------------
(* Tracking a steady input: tracking stays active, no line arrives, the    *)
(* analog input holds the reading it gave last (any reading, if none was   *)
(* taken yet) and the ticks keep coming, 5 or 10 ms apart, up to           *)
(* MaxHoldTicks * 5 ms.  The buffer is empty, or full of earlier readings  *)
(* with the position settled on them.                                      *)

MaxHoldTicks == 40

HoldRanges == {12, 60}

HoldReadings == {0, 2048, ADC_FULL_SCALE}

\* The reading the input holds: the one pushed last.
Held == recent[Len(recent)]

InitHold ==
  /\ adc_control_active = TRUE
  /\ position_range \in HoldRanges
  /\ \/ /\ adc_buffer = [i \in 1..ADC_SAMPLES |-> 0]
        /\ adc_buffer_filled = FALSE
        /\ adc_current_position = 0
        /\ adc_target_position = 0
        /\ pushed_lo = ADC_FULL_SCALE
        /\ pushed_hi = 0
        /\ recent = <<>>
     \/ \E old \in HoldReadings, new \in HoldReadings :
          /\ adc_buffer = [i \in 1..ADC_SAMPLES |->
                             IF i = ADC_SAMPLES THEN new ELSE old]
          /\ adc_buffer_filled = TRUE
          /\ adc_current_position = MapTarget(old, position_range)
          /\ adc_target_position = MapTarget(old, position_range)
          /\ pushed_lo = Min(old, new)
          /\ pushed_hi = Max(old, new)
          /\ recent = adc_buffer
  /\ adc_buffer_index = 0
  /\ last_adc_move = 0
  /\ command_buffer = <<>>
  /\ enable_pin = "LOW"
  /\ dir_pin = [a \in Axes |-> "LOW"]
  /\ now = 0
  /\ rx = <<>>
  /\ pc = "tracker"
  /\ pulses = NoPulses
  /\ diag = <<>>
  /\ sampled = FALSE
  /\ cmdLog = <<>>
  /\ y_net = adc_current_position
  /\ therm_adc = -1
  /\ move = NoMove
  /\ enable_before = "LOW"

HoldTick ==
  \E dt \in TimeSteps, raw \in HoldReadings :
    /\ recent # <<>> => raw = Held
    /\ now + dt <= MaxHoldTicks * 5
    /\ TrackerStep(now + dt, raw, <<>>)

NextHold == HoldTick \/ DrainDone

\* The main loop calls manual_control_task again and again.
SpecHold ==
  InitHold /\ [][NextHold]_vars /\ WF_vars(HoldTick) /\ WF_vars(DrainDone)

----------------------------------------------------------------------------
(* The widest range: tracking is active with the range at 50000 and the    *)
(* position settled at one end of it; the input has just swung to the      *)
(* other end, so that the next reading turns the median.  Ticks come 10 ms *)
(* apart and carry at most one line that changes the range or zeroes the   *)
(* position.                                                               *)

MaxRangeTicks == 3

RangeLines ==
  { Cmd_adc_zero,
    Cmd_adc_range \o <<"1", "2">>,
    Cmd_adc_range \o <<"5", "0", "0", "0", "0">> }

RangeChunks == {<<>>} \cup {l \o EOL : l \in RangeLines}

InitRange ==
  /\ adc_control_active = TRUE
  /\ position_range = RANGE_MAX
  /\ \/ /\ adc_buffer = <<0, 0, 0, 0, 4095, 4095, 4095, 4095>>
        /\ adc_buffer_index = 4
        /\ recent = <<4095, 4095, 4095, 4095, 0, 0, 0, 0>>
     \/ /\ adc_buffer = <<4095, 4095, 4095, 0, 0, 0, 0, 0>>
        /\ adc_buffer_index = 3
        /\ recent = <<0, 0, 0, 0, 0, 4095, 4095, 4095>>
  /\ adc_buffer_filled = TRUE
  /\ adc_target_position = MapTarget(FilteredValue, position_range)
  /\ adc_current_position = adc_target_position
  /\ last_adc_move = 0
  /\ command_buffer = <<>>
  /\ enable_pin = "LOW"
  /\ dir_pin = [a \in Axes |-> "LOW"]
  /\ now = 0
  /\ rx = <<>>
  /\ pc = "tracker"
  /\ pulses = NoPulses
  /\ diag = <<>>
  /\ sampled = FALSE
  /\ cmdLog = <<>>
  /\ pushed_lo = 0
  /\ pushed_hi = ADC_FULL_SCALE
  /\ y_net = adc_current_position
  /\ therm_adc = -1
  /\ move = NoMove
  /\ enable_before = "LOW"

RangeTick ==
  \E raw \in AdcValues, chunk \in RangeChunks :
    /\ now + UPDATE_MS <= MaxRangeTicks * UPDATE_MS
    /\ TrackerStep(now + UPDATE_MS, raw, chunk)

NextRange == RangeTick \/ Drain \/ DrainDone

SpecRange == InitRange /\ [][NextRange]_vars

----------------------------------------------------------------------------
(* A blocking move pulse by pulse: the loop of manual_move_axis (lines      *)
(* 100-109) and the loop of the tracker's correction (lines 184-195), from *)
(* the moment the enable and direction lines are set.  move.i is the loop  *)
(* counter, move.quiet the number of pulses since the latest watchdog      *)
(* refresh, move.fed whether the first pulse came with a refresh.          *)

MaxMoveSteps == 25

JOG_WATCHDOG_EVERY == 10
TRACK_WATCHDOG_EVERY == 5

WatchdogEvery(kind) ==
  IF kind = "track" THEN TRACK_WATCHDOG_EVERY ELSE JOG_WATCHDOG_EVERY

\* Faulty variant: the refresh comes with the last pulse of a period.
WatchdogDueLast(i, every) == i % every = every - 1

\* if (i % 10 == 0) hal.watchdog_refresh(), and i % 5 in the tracker
WatchdogDue(i, every) == i % every = 0

\* Positions the tracker may stand at when a correction starts.
MoveStarts == {-7, 0, 6, 3192, 3195}

MoveReadings == {0, 2048, ADC_FULL_SCALE}

\* A jog of any axis is about to issue its first pulse.
InitJog ==
  /\ adc_control_active \in BOOLEAN
  /\ adc_current_position = 0
  /\ adc_target_position = 0
  /\ last_adc_move = 0
  /\ adc_buffer = [i \in 1..ADC_SAMPLES |-> 0]
  /\ adc_buffer_index = 0
  /\ pushed_lo = ADC_FULL_SCALE
  /\ pushed_hi = 0
  /\ recent = <<>>
  /\ now = 0
  /\ pc = "drain"
  /\ sampled = FALSE
  /\ diag = <<"Moving">>
  /\ \E a \in Axes, d \in Levels, n \in 1..MaxMoveSteps :
       /\ dir_pin = [x \in Axes |-> IF x = a THEN d ELSE "LOW"]
       /\ move = [kind |-> "jog", axis |-> a, steps |-> n, i |-> 0,
                  quiet |-> 0, fed |-> FALSE]

\* A correction of the tracker is about to issue its first pulse: the
\* first reading has been pushed and mapped, the error is outside the
\* deadzone.
InitTrack ==
  /\ adc_control_active = TRUE
  /\ adc_current_position \in MoveStarts
  /\ \E raw \in MoveReadings :
       /\ adc_buffer = [i \in 1..ADC_SAMPLES |-> IF i = 1 THEN raw ELSE 0]
       /\ adc_target_position = MapTarget(raw, DEFAULT_RANGE)
       /\ pushed_lo = raw
       /\ pushed_hi = raw
       /\ recent = <<raw>>
  /\ ~InDeadzone(adc_target_position - adc_current_position)
  /\ last_adc_move = 0
  /\ adc_buffer_index = 1
  /\ now = UPDATE_MS
  /\ pc = "tracker"
  /\ sampled = TRUE
  /\ diag = <<>>
  /\ dir_pin = [a \in Axes |->
                 IF a = "Y" /\ adc_target_position > adc_current_position
                 THEN "HIGH" ELSE "LOW"]
  /\ move = [kind |-> "track", axis |-> "Y",
             steps |-> StepsToMove(adc_target_position - adc_current_position),
             i |-> 0, quiet |-> 0, fed |-> FALSE]

InitMove ==
  /\ InitJog \/ InitTrack
  /\ position_range = DEFAULT_RANGE
  /\ adc_buffer_filled = FALSE
  /\ command_buffer = <<>>
  /\ enable_pin = "LOW"
  /\ rx = <<>>
  /\ pulses = NoPulses
  /\ cmdLog = <<>>
  /\ y_net = 0
  /\ therm_adc = -1
  /\ enable_before = "LOW"

\* One pass of the loop body: a pulse, the position count of the tracker,
\* the watchdog refresh when it is due.
MovePulse ==
  /\ move.kind \in {"jog", "track"}
  /\ move.i < move.steps
  /\ pulses' = [pulses EXCEPT ![move.axis] = @ + 1]
  /\ adc_current_position' =
       IF move.kind = "track"
       THEN adc_current_position + (IF dir_pin["Y"] = "HIGH" THEN 1 ELSE -1)
       ELSE adc_current_position
  /\ move' = [move EXCEPT
                !.i = @ + 1,
                !.quiet = IF WatchdogDue(move.i, WatchdogEvery(move.kind))
                          THEN 0 ELSE @ + 1,
                !.fed = IF move.i = 0
                        THEN WatchdogDue(move.i, WatchdogEvery(move.kind))
                        ELSE @]
  /\ y_net' = y_net + NetY([NoPulses EXCEPT ![move.axis] = 1], dir_pin)
  /\ UNCHANGED <<adc_control_active, adc_target_position, position_range,
                 last_adc_move, adc_buffer, adc_buffer_index,
                 adc_buffer_filled, command_buffer, enable_pin, dir_pin, now,
                 rx, pc, diag, sampled, cmdLog, pushedVars, therm_adc,
                 enable_before>>

\* The loop condition fails: the jog reports, the tracker notes the time.
MoveEnd ==
  /\ move.kind \in {"jog", "track"}
  /\ ~(move.i < move.steps)
  /\ move' = [move EXCEPT !.kind = "done"]
  /\ last_adc_move' = IF move.kind = "track" THEN now ELSE last_adc_move
  /\ diag' = IF move.kind = "jog" THEN <<"Moving", "Move complete">> ELSE diag
  /\ UNCHANGED <<adc_control_active, adc_current_position,
                 adc_target_position, position_range, adc_buffer,
                 adc_buffer_index, adc_buffer_filled, command_buffer,
                 enable_pin, dir_pin, now, rx, pc, pulses, sampled, cmdLog,
                 pushedVars, y_net, therm_adc, enable_before>>

NextMove == MovePulse \/ MoveEnd

\* The loop is straight-line code between two delays: it goes on.
SpecMove == InitMove /\ [][NextMove]_vars /\ WF_vars(NextMove)

----------------------------------------------------------------------------
(* The sample filter under a stream of readings: tracking starts on, every *)
(* tick comes 10 ms after the one before, and the only lines that arrive   *)
(* switch tracking off and on again.                                       *)

MaxPushes == 10

ScenarioSamples == <<10, 90, 20, 80, 30, 70, 40, 60>>

FilterValues == {0, ADC_FULL_SCALE}

\* The readings of the scenario in their order, or any of FilterValues.
Offered(raw) ==
  \/ raw \in FilterValues
  \/ /\ ~adc_buffer_filled
     /\ SubSeq(adc_buffer, 1, adc_buffer_index)
          = SubSeq(ScenarioSamples, 1, adc_buffer_index)
     /\ raw = ScenarioSamples[adc_buffer_index + 1]

InitFilter ==
  /\ adc_control_active = TRUE
  /\ adc_current_position = 0
  /\ adc_target_position = 0
  /\ position_range = DEFAULT_RANGE
  /\ last_adc_move = 0
  /\ adc_buffer = [i \in 1..ADC_SAMPLES |-> 0]
  /\ adc_buffer_index = 0
  /\ adc_buffer_filled = FALSE
  /\ command_buffer = <<>>
  /\ enable_pin = "LOW"
  /\ dir_pin = [a \in Axes |-> "LOW"]
  /\ now = 0
  /\ rx = <<>>
  /\ pc = "tracker"
  /\ pulses = NoPulses
  /\ diag = <<>>
  /\ sampled = FALSE
  /\ cmdLog = <<>>
  /\ NothingObserved

\* What the port holds in a tick of the filter's specification.
FilterChunks == {<<>>, Cmd_adc_off \o EOL, Cmd_adc_on \o EOL}

FilterTick ==
  \E raw \in FilterValues \cup {ScenarioSamples[i] : i \in 1..ADC_SAMPLES},
     chunk \in FilterChunks :
    /\ Offered(raw)
    /\ now + UPDATE_MS <= MaxPushes * UPDATE_MS
    /\ TrackerStep(now + UPDATE_MS, raw, chunk)

NextFilter == FilterTick \/ Drain \/ DrainDone

SpecFilter == InitFilter /\ [][NextFilter]_vars

----------------------------------------------------------------------------
(* Vocabulary of the properties *)

\* The step about to be taken is the tracker increment of a tick.
AtTracker == pc = "tracker"

\* The step about to be taken interprets the line l.
Interprets(l) ==
  /\ pc = "drain"
  /\ rx # <<>>
  /\ ReadLine(command_buffer, rx).complete
  /\ ReadLine(command_buffer, rx).line = l

\* The state right after a tracker increment that sampled.
JustSampled == pc = "drain" /\ sampled /\ cmdLog = <<>>

Sign(x) == IF x > 0 THEN 1 ELSE IF x < 0 THEN -1 ELSE 0

Pushed == adc_buffer_index > 0 \/ adc_buffer_filled

ValidSamples ==
  SubSeq(adc_buffer, 1, IF adc_buffer_filled THEN 8 ELSE adc_buffer_index)

\* The k-th smallest element of a sequence, counting repetitions.
KthSmallest(samples, k) ==
  CHOOSE v \in {samples[i] : i \in DOMAIN samples} :
    /\ Cardinality({i \in DOMAIN samples : samples[i] < v}) < k
    /\ Cardinality({i \in DOMAIN samples : samples[i] <= v}) >= k

----------------------------------------------------------------------------
(* Properties of the running system (Spec) *)

\* C1. Deadzone: a tick of the tracker, tracking active, whose target is
\* within 5 steps of current_position issues no Y step pulse (no pulse at
\* all) and leaves current_position unchanged.
C1_Deadzone ==
  [][ ( /\ AtTracker
        /\ adc_control_active
        /\ Abs(adc_target_position' - adc_current_position) <= 5 )
      => ( /\ pulses' = NoPulses
           /\ adc_current_position' = adc_current_position ) ]_vars

\* A tick sampled, found an error of 1..5 steps and did not move.
C1_Witness ==
  /\ JustSampled
  /\ adc_target_position # adc_current_position
  /\ Abs(adc_target_position - adc_current_position) <= 5
  /\ pulses = NoPulses

\* C2. Rate limit: a tick that passes the rate gate with an error of more
\* than 5 steps issues exactly min(|error|, 10) Y pulses and moves
\* current_position by that many steps toward the target, not past it.
C2_RateLimit ==
  [][ ( /\ AtTracker
        /\ sampled'
        /\ Abs(adc_target_position' - adc_current_position) > 5 )
      => LET error == adc_target_position' - adc_current_position
             n     == IF Abs(error) < 10 THEN Abs(error) ELSE 10
         IN  /\ pulses' = [NoPulses EXCEPT !["Y"] = n]
             /\ adc_current_position' = adc_current_position + Sign(error) * n
             /\ Abs(adc_target_position' - adc_current_position')
                  = Abs(error) - n
             /\ Abs(adc_current_position' - adc_current_position) <= 10 ]_vars

\* A tick moved by an error of 6..9 steps and landed on the target.
C2_Witness ==
  /\ JustSampled
  /\ pulses["Y"] \in 6..9
  /\ adc_current_position = adc_target_position

\* C3 as stated: current_position changes only in a tracker increment with
\* tracking active.
C3_OnlyWhileTracking ==
  [][ adc_current_position' # adc_current_position
      => (AtTracker /\ adc_control_active) ]_vars

\* C3 amended: current_position changes only by the corrective steps of a
\* tracker increment with tracking active (one step of position per Y
\* pulse), or by an adc_zero line, which sets it to 0 in either state; a jog
\* never changes it.
C3_OnlyTrackerOrZero ==
  [][ adc_current_position' # adc_current_position
      => \/ /\ AtTracker
            /\ adc_control_active
            /\ pulses'["Y"] = Abs(adc_current_position' - adc_current_position)
         \/ /\ Interprets(Cmd_adc_zero)
            /\ adc_current_position' = 0 ]_vars

\* A y jog was interpreted while tracking was active and current_position
\* is off zero: the jog left it alone.
C3_Witness ==
  /\ pc = "drain"
  /\ cmdLog = <<<<"y", "+", "7">>>>
  /\ pulses["Y"] = 7
  /\ adc_control_active
  /\ adc_current_position # 0

\* C4. Within a tick the tracker increment comes before the lines of that
\* tick: no line has been interpreted when it runs; with tracking inactive
\* it neither samples nor steps whatever lines the tick carries (adc_on
\* among them); with tracking active and the gate open it samples and maps
\* the median of the valid samples with the range it finds, whatever lines
\* the tick carries; and no line interpreted afterwards touches what the
\* increment did.
C4_TrackerBeforeDrain ==
  [][ /\ AtTracker => (rx = <<>> /\ cmdLog = <<>> /\ pc' = "drain")
      /\ (AtTracker /\ ~adc_control_active)
           => ( /\ ~sampled'
                /\ pulses' = NoPulses
                /\ UNCHANGED trackerVars
                /\ ~adc_control_active' )
      /\ (AtTracker /\ adc_control_active /\ now' - last_adc_move >= 10)
           => ( /\ sampled'
                /\ adc_buffer_index' = (adc_buffer_index + 1) % 8
                /\ adc_target_position' =
                     MapTarget(KthSmallest(ValidSamples',
                                           (Len(ValidSamples') \div 2) + 1),
                               position_range)
                /\ adc_control_active' )
      /\ pc = "drain"
           => UNCHANGED <<adc_target_position, last_adc_move, adc_buffer,
                          adc_buffer_index, adc_buffer_filled>> ]_vars

\* adc_on was interpreted in a tick whose increment did not sample, and
\* tracking is now active with an empty sample buffer.
C4_Witness ==
  /\ pc = "drain"
  /\ cmdLog = <<Cmd_adc_on>>
  /\ ~sampled
  /\ adc_control_active
  /\ adc_buffer_index = 0
  /\ ~adc_buffer_filled

\* C5. Tracking state machine: initially Idle; adc_on leads to Tracking with
\* the enable line asserted; adc_off leads to Idle and leaves the enable
\* line as it was; adc_zero sets current_position to 0, issues no pulse and
\* keeps the state.
C5_StateMachine ==
  /\ ~adc_control_active
  /\ [][ /\ Interprets(Cmd_adc_on)
           => (adc_control_active' /\ enable_pin' = "LOW")
         /\ Interprets(Cmd_adc_off)
           => (~adc_control_active' /\ enable_pin' = enable_pin)
         /\ Interprets(Cmd_adc_zero)
           => ( /\ adc_current_position' = 0
                /\ pulses' = NoPulses
                /\ adc_control_active' = adc_control_active ) ]_vars

\* adc_zero was interpreted twice in a row while tracking, after the tracker
\* had moved in this tick.
C5_Witness ==
  /\ pc = "drain"
  /\ cmdLog = <<Cmd_adc_zero, Cmd_adc_zero>>
  /\ sampled
  /\ adc_control_active
  /\ adc_current_position = 0
  /\ pulses = NoPulses
  /\ last_adc_move = now

----------------------------------------------------------------------------
(* Vocabulary of the properties of command lines *)

\* The line the step about to be taken interprets, if it interprets one.
Completing ==
  pc = "drain" /\ rx # <<>> /\ ReadLine(command_buffer, rx).complete

CompletedLine == ReadLine(command_buffer, rx).line

\* What follows the first k characters of a line.
SuffixOf(line, k) == SubSeq(line, k + 1, Len(line))

AllDigits(text) == \A i \in 1..Len(text) : IsDigit(text[i])

\* The longest run of digits a text starts with.
LeadingDigits(text) ==
  LET stops == {i \in 1..Len(text) : ~IsDigit(text[i])}
  IN  IF stops = {} THEN text
      ELSE SubSeq(text, 1, (CHOOSE i \in stops : \A j \in stops : i <= j) - 1)

\* The decimal value of a run of digits; any value above cap stands for
\* every value above cap.
RECURSIVE DecimalUpTo(_, _, _, _)
DecimalUpTo(digits, i, acc, cap) ==
  IF i > Len(digits) \/ acc > cap THEN acc
  ELSE DecimalUpTo(digits, i + 1, acc * 10 + DigitVal(digits[i]), cap)

Decimal(digits, cap) == DecimalUpTo(digits, 1, 0, cap)

\* A jog line <axis><sign>N with N in 1..10000.
IsJogWithCount(line) ==
  /\ Len(line) > 2
  /\ <<line[1], line[2]>> \in JogPrefixes
  /\ AllDigits(SuffixOf(line, 2))
  /\ Decimal(SuffixOf(line, 2), 10000) \in 1..10000

\* An adc_range line with a suffix that denotes no value in 1..50000.
IsBadRangeLine(line) ==
  /\ HasPrefix(line, Cmd_adc_range)
  /\ Len(line) > 9
  /\ ~ ( /\ AllDigits(SuffixOf(line, 9))
         /\ Decimal(SuffixOf(line, 9), 50000) \in 1..50000 )

\* The step count C9 gives a jog line.
StatedSteps(line) ==
  LET digits == LeadingDigits(SuffixOf(line, 2))
      value  == Decimal(digits, 10000)
  IN  IF digits # <<>> /\ value > 0 /\ value <= 10000 THEN value
      ELSE IF line[1] \in {"x", "y"} THEN 100
      ELSE IF line[1] = "z" THEN 10
      ELSE 50

----------------------------------------------------------------------------
(* Properties of one command line (SpecLine) and of the running system *)

\* C6. A jog line <axis><sign>N, N in 1..10000, whatever the enable line
\* was: the enable line is asserted afterwards, the direction line of the
\* axis is HIGH for + and LOW for -, N pulses are issued on the axis and
\* none on any other axis.
C6_JogLine ==
  [][ (Completing /\ IsJogWithCount(CompletedLine))
      => LET line == CompletedLine
             axis == CASE line[1] = "x" -> "X" [] line[1] = "y" -> "Y"
                       [] line[1] = "z" -> "Z" [] line[1] = "e" -> "E"
             n    == Decimal(SuffixOf(line, 2), 10000)
         IN  /\ enable_pin' = "LOW"
             /\ dir_pin'[axis] = (IF line[2] = "+" THEN "HIGH" ELSE "LOW")
             /\ \A a \in Axes \ {axis} : dir_pin'[a] = dir_pin[a]
             /\ pulses'[axis] = n
             /\ \A a \in Axes \ {axis} : pulses'[a] = 0 ]_vars

\* x+50 has been interpreted: 50 pulses on X alone, direction forward, the
\* enable line asserted.
C6_Witness ==
  /\ pc = "drain"
  /\ cmdLog = <<<<"x", "+", "5", "0">>>>
  /\ pulses = [NoPulses EXCEPT !["X"] = 50]
  /\ dir_pin["X"] = "HIGH"
  /\ enable_pin = "LOW"

\* C7 as stated: an adc_range line whose suffix denotes no value in
\* 1..50000 leaves the range unchanged and prints the line that reports the
\* current range.
C7_RejectedRangeReported ==
  [][ (Completing /\ IsBadRangeLine(CompletedLine))
      => ( /\ position_range' = position_range
           /\ \E i \in DOMAIN diag' : diag'[i] = "Current position range" ) ]_vars

\* C8 as stated: the range is always an even integer within 2..50000.
C8_RangeEven ==
  position_range \in 2..50000 /\ position_range % 2 = 0

\* C8 amended: the range is always an integer within 1..50000 (it starts at
\* 6400, and adc_range accepts every value from 1 to 50000, odd ones too).
C8_RangeWithinLimits == position_range \in 1..50000

\* adc_range3 has been accepted.
C8_Witness ==
  /\ position_range = 3
  /\ diag = <<"Position range set to">>

\* C9 as stated: the step count of a jog line is the decimal value of the
\* digits after the prefix when that value is within 1..10000, and the axis
\* default in every other case.
C9_StepCount ==
  [][ (Completing /\ Len(CompletedLine) >= 2
         /\ <<CompletedLine[1], CompletedLine[2]>> \in JogPrefixes)
      => \E a \in Axes : pulses' = [NoPulses EXCEPT ![a] = StatedSteps(CompletedLine)]
    ]_vars

----------------------------------------------------------------------------
(* Properties of the sample filter (SpecFilter) *)

ScenarioPushed ==
  adc_buffer = <<10, 90, 20, 80, 30, 70, 40, 60>> /\ adc_buffer_filled

\* C10 as stated: the filtered value is the middle element of the sorted
\* valid samples, the lower of the two middle ones when their number is
\* even, and 40 after the pushes 10,90,20,80,30,70,40,60.
C10_LowerMiddle ==
  Pushed =>
    /\ FilteredValue = KthSmallest(ValidSamples, (Len(ValidSamples) + 1) \div 2)
    /\ ScenarioPushed => FilteredValue = 40

\* C10 amended: the filtered value is the element at index count/2
\* (0-based) of the sorted valid samples: the middle one of an odd count,
\* the upper of the two middle ones of an even count; it is 60 after the
\* pushes 10,90,20,80,30,70,40,60.  The target of the tick is mapped from it.
C10_UpperMiddle ==
  Pushed =>
    LET median == KthSmallest(ValidSamples, (Len(ValidSamples) \div 2) + 1)
    IN  /\ FilteredValue = median
        /\ adc_target_position
             = ((median * (2 * (position_range \div 2))) \div 4095)
                 - (position_range \div 2)
        /\ ScenarioPushed => median = 60

\* The eight readings of the scenario have been pushed into the empty
\* buffer and the target comes from 60.
C10_Witness ==
  /\ ScenarioPushed
  /\ adc_buffer_index = 0
  /\ now = 80
  /\ adc_target_position = -3107

\* C11. After every push the filtered value is neither greater than the
\* greatest nor less than the least of the readings pushed so far.
C11_MedianWithinPushed ==
  Pushed => (pushed_lo <= FilteredValue /\ FilteredValue <= pushed_hi)

\* The buffer has wrapped, the least reading pushed so far has left it, and
\* the filtered value lies strictly between the least and the greatest.
C11_Witness ==
  /\ adc_buffer_filled
  /\ \A i \in 1..ADC_SAMPLES : adc_buffer[i] # pushed_lo
  /\ pushed_lo < FilteredValue
  /\ FilteredValue < pushed_hi

\* C12. From the eighth push on the filtered value is a function of the
\* latest eight readings pushed (the median of them, whatever came before
\* and whether or not tracking was switched off and on in between); before
\* the eighth push the number of samples used is the number of pushes so
\* far.
C12_LatestEight ==
  /\ Len(recent) = ADC_SAMPLES
       => ( /\ adc_buffer_filled
            /\ FilteredValue = KthSmallest(recent, (ADC_SAMPLES \div 2) + 1)
            /\ adc_target_position
                 = MapTarget(KthSmallest(recent, (ADC_SAMPLES \div 2) + 1),
                             position_range) )
  /\ Len(recent) < ADC_SAMPLES
       => ( /\ ~adc_buffer_filled
            /\ SamplesToUse(adc_buffer_index, adc_buffer_filled) = Len(recent)
            /\ ValidSamples = recent )

\* Nine readings have been pushed in ten ticks, so tracking was switched off
\* and on again on the way; the first reading, which has left
\* the window, differs from the one that replaced it.
C12_Witness ==
  /\ adc_buffer_filled
  /\ adc_buffer_index = 1
  /\ now = 100
  /\ adc_control_active
  /\ JustSampled
  /\ pushed_lo = 0
  /\ \A i \in 1..ADC_SAMPLES : adc_buffer[i] > 0

----------------------------------------------------------------------------
(* Properties of the line assembler (SpecStream) *)

\* The bytes with the line ends the loop skips (buffer_pos = 0) left off.
RECURSIVE SkipEnds(_)
SkipEnds(bytes) ==
  IF bytes # <<>> /\ Head(bytes) \in Terminators THEN SkipEnds(Tail(bytes))
  ELSE bytes

\* What the port holds, as the assembler with this buffer meets it.
Waiting == IF command_buffer = <<>> THEN SkipEnds(rx) ELSE rx

\* The place of the first line end in a sequence of bytes, 0 if it has none.
FirstEnd(bytes) ==
  IF \E i \in DOMAIN bytes : bytes[i] \in Terminators
  THEN CHOOSE i \in DOMAIN bytes :
         /\ bytes[i] \in Terminators
         /\ \A j \in 1..(i - 1) : bytes[j] \notin Terminators
  ELSE 0

\* The line as sent: what the buffer holds and the printable characters up
\* to the next line end.
SentLine ==
  command_buffer
    \o SelectSeq(SubSeq(Waiting, 1, FirstEnd(Waiting) - 1), IsPrintable)

FirstChars(line, n) == SubSeq(line, 1, Min(Len(line), n))

\* C13. The write index into the command buffer never exceeds 31; a line
\* is delivered to the interpreter as its first 31 printable characters (the
\* whole line when it has no more), the index is 0 after the line end, and
\* the bytes after the line end are left for the next line, which is
\* delivered the same way.
C13_LineAssembler ==
  /\ [](Len(command_buffer) <= 31)
  /\ [][ (pc = "drain" /\ FirstEnd(Waiting) > 0)
         => ( /\ cmdLog' = Append(cmdLog, FirstChars(SentLine, 31))
              /\ command_buffer' = <<>>
              /\ rx' = SubSeq(Waiting, FirstEnd(Waiting) + 1, Len(Waiting)) ) ]_vars

\* A line of more than 31 characters (every long line sent ends in 7) was
\* delivered as 31 characters, and adc_on, which followed it, was delivered
\* as sent and switched tracking on.
C13_Witness ==
  /\ Len(cmdLog) = 2
  /\ Len(cmdLog[1]) = 31
  /\ cmdLog[1][31] = "0"
  /\ cmdLog[2] = Cmd_adc_on
  /\ adc_control_active
  /\ command_buffer = <<>>
  /\ rx = <<>>

----------------------------------------------------------------------------
(* Properties of a blocking move (SpecMove) *)

Moving == move.kind \in {"jog", "track"}

\* C14. In every blocking move the watchdog is refreshed with the first
\* pulse; there are never more than 10 consecutive pulses (5 in a correction
\* of the tracker) without a refresh; the move ends, and when it has ended
\* the requested number of pulses has been issued, on its axis alone.
C14_Watchdog ==
  /\ []( move.i >= 1 => move.fed )
  /\ []( move.quiet <= IF move.kind = "track" THEN 5 ELSE 10 )
  /\ []( pulses = [NoPulses EXCEPT ![move.axis] = move.i] )
  /\ []( move.kind = "done" => move.i = move.steps )
  /\ [][ Moving /\ move'.kind = "done" => move.i = move.steps ]_vars
  /\ <>( move.kind = "done" )

\* A jog of more than 21 pulses has ended; the watchdog was refreshed with
\* its first pulse and last with its 21st (loop counter 20).
C14_Witness ==
  /\ move.kind = "done"
  /\ move.steps > 21
  /\ pulses[move.axis] = move.steps
  /\ move.quiet = move.steps - 21
  /\ move.fed

----------------------------------------------------------------------------
(* Properties of the thermistor read-out (SpecLine) *)

\* C15 as stated: an h or b line that reads a voltage of 0 (reading 0)
\* reports OPEN, one that reads the supply voltage (reading 4095) reports
\* SHORT, and neither changes the tracking flag, the range or the enable
\* line.
C15_ThermistorFaults ==
  [][ (Completing /\ ReadsThermistor(CompletedLine))
      => ( /\ therm_adc' <= 0 => diag' = <<"OPEN">>
           /\ therm_adc' >= ADC_FULL_SCALE => diag' = <<"SHORT">>
           /\ UNCHANGED <<adc_control_active, position_range, enable_pin>> )
    ]_vars

----------------------------------------------------------------------------
(* Further properties of the running system (Spec) *)

\* C16. Rate gate: with tracking active, a tick that comes less than 10 ms
\* after last_adc_move is skipped as a whole (no sample, no new target, no
\* pulse, no change of the tracker's state or of the pins); a tick that
\* issues corrective steps comes at least 10 ms after last_adc_move and
\* sets it to its own time; and nothing else ever sets last_adc_move, so
\* two corrective moves never start less than 10 ms apart.
C16_RateGate ==
  [][ /\ (AtTracker /\ adc_control_active /\ now' - last_adc_move < 10)
           => ( /\ ~sampled'
                /\ pulses' = NoPulses
                /\ UNCHANGED <<trackerVars, pushedVars, enable_pin, dir_pin,
                               adc_control_active, position_range>> )
      /\ (AtTracker /\ pulses' # NoPulses)
           => ( /\ now' - last_adc_move >= 10
                /\ last_adc_move' = now' )
      /\ last_adc_move' # last_adc_move
           => ( /\ AtTracker
                /\ adc_control_active
                /\ pulses'["Y"] > 0
                /\ last_adc_move' = now' ) ]_vars

\* A tick came 5 ms after a corrective move, with tracking active, and was
\* skipped.
C16_Witness ==
  /\ pc = "drain"
  /\ cmdLog = <<>>
  /\ adc_control_active
  /\ last_adc_move > 0
  /\ now - last_adc_move = 5
  /\ ~sampled
  /\ pulses = NoPulses

----------------------------------------------------------------------------
(* Properties of jogs while tracking is active (SpecTracking) *)

JogWhileTracking ==
  Completing /\ IsJog(CompletedLine) /\ adc_control_active

JogFrame ==
  /\ \E a \in Axes : pulses'[a] > 0
  /\ adc_control_active'
  /\ UNCHANGED <<adc_current_position, adc_target_position, position_range,
                 last_adc_move, adc_buffer, adc_buffer_index,
                 adc_buffer_filled>>

\* C17 as stated: a jog interpreted while tracking is active issues its
\* pulses, leaves the tracking flag, current_position, the target, the
\* range, last_adc_move and the sample buffer unchanged, and after a y jog
\* the net number of Y pulses issued differs from current_position.
C17_JogLeavesGap ==
  [][ JogWhileTracking
      => ( /\ JogFrame
           /\ CompletedLine[1] = "y" => y_net' # adc_current_position' ) ]_vars

\* C17 amended: the same frame; a y jog of n pulses moves the net number of
\* Y pulses issued by n (forward) or -n (backward) away from where it was
\* relative to current_position, and a jog of another axis leaves it; so
\* the two differ after a y jog when they agreed before it, and they may
\* agree again after a y jog that undoes an earlier one.
C17_JogShiftsGap ==
  [][ JogWhileTracking
      => ( /\ JogFrame
           /\ LET gap  == y_net - adc_current_position
                  gap2 == y_net' - adc_current_position'
                  n    == pulses'["Y"]
              IN  IF CompletedLine[1] = "y"
                  THEN /\ n > 0
                       /\ gap2 = gap + (IF CompletedLine[2] = "+" THEN n ELSE -n)
                       /\ gap = 0 => gap2 # 0
                  ELSE n = 0 /\ gap2 = gap ) ]_vars

\* y+7 was interpreted in a tick in which the tracker had moved, and the
\* Y pulses issued so far are 7 more than current_position.
C17_Witness ==
  /\ pc = "drain"
  /\ cmdLog = <<<<"y", "+", "7">>>>
  /\ adc_control_active
  /\ sampled
  /\ adc_current_position # 0
  /\ pulses["Y"] = 7
  /\ y_net = adc_current_position + 7

----------------------------------------------------------------------------
(* Properties of tracking a steady input (SpecHold) *)

\* The target is the one mapped from the reading held, and
\* current_position is within 5 steps of it.
Settled ==
  /\ recent # <<>>
  /\ adc_target_position = MapTarget(Held, position_range)
  /\ Abs(MapTarget(Held, position_range) - adc_current_position) <= 5

\* C18. With tracking active, no line arriving, the analog input holding
\* one reading and the ticks going on, current_position eventually comes
\* within 5 steps of the target mapped from that reading and stays there;
\* from then on no pulse is issued and current_position does not change.
C18_Converges ==
  /\ <>[]Settled
  /\ [][ Settled => ( /\ Settled'
                      /\ pulses' = NoPulses
                      /\ adc_current_position' = adc_current_position ) ]_vars

\* The position has moved to the target of the reading held and two ticks
\* have sampled since without a pulse.
C18_Witness ==
  /\ Settled
  /\ adc_current_position # 0
  /\ last_adc_move > 0
  /\ now - last_adc_move >= 20
  /\ JustSampled
  /\ pulses = NoPulses

----------------------------------------------------------------------------
(* Properties of the enable line (Spec) *)

\* C19. Whenever a step issues a pulse on any axis, by a jog or by the
\* tracker, the enable line is asserted (LOW) when the step is over; a
\* correction of the tracker that finds the line released (off was the
\* last word on it, tracking still active) asserts it again.
C19_EnabledWhenPulsing ==
  [][ /\ (\E a \in Axes : pulses'[a] > 0) => enable_pin' = "LOW"
      /\ (AtTracker /\ sampled' /\ enable_pin = "HIGH"
            /\ ~InDeadzone(adc_target_position' - adc_current_position))
           => (pulses'["Y"] > 0 /\ enable_pin' = "LOW") ]_vars

\* The tracker found the enable line released, issued Y pulses and left it
\* asserted.
C19_Witness ==
  /\ JustSampled
  /\ adc_control_active
  /\ enable_before = "HIGH"
  /\ pulses["Y"] > 0
  /\ enable_pin = "LOW"

----------------------------------------------------------------------------
(* Properties of the ranges of the positions (SpecRange) *)

PositionsBounded ==
  /\ Abs(adc_current_position) <= 25000
  /\ Abs(adc_target_position - adc_current_position) <= 50000
  /\ ToUint16(Abs(adc_target_position - adc_current_position))
       = Abs(adc_target_position - adc_current_position)
  /\ ADC_FULL_SCALE * (TruncDiv(position_range, 2) - TruncDiv(-position_range, 2))
       <= INT32_MAX

TargetWithin(range) ==
  /\ adc_target_position >= TruncDiv(-range, 2)
  /\ adc_target_position <= TruncDiv(range, 2)

\* C20 as stated: in every reachable state the target lies within
\* [-range/2, +range/2], |current_position| <= 25000 and
\* |target - current_position| <= 50000, so that the uint16 conversion of
\* the error keeps its value and the mapping stays within int32.
C20_TargetWithinRange == TargetWithin(position_range) /\ PositionsBounded

\* C20 amended: in every reachable state the target lies within
\* [-25000, +25000], |current_position| <= 25000 and
\* |target - current_position| <= 50000 (so the uint16 conversion of the
\* error keeps its value and the mapping stays within int32); the target
\* lies within [-range/2, +range/2] for the range of the tick that
\* computed it, that is in the state a sampling tick leaves, and an
\* adc_range line does not compute it anew.
C20_TargetWithinWidest ==
  /\ TargetWithin(RANGE_MAX)
  /\ PositionsBounded
  /\ JustSampled => TargetWithin(position_range)

\* The median has swung from one end of the widest range to the other: the
\* error was 50000 steps, of which the tick took 10.
C20_Witness ==
  /\ JustSampled
  /\ position_range = RANGE_MAX
  /\ Abs(adc_target_position - adc_current_position) = 50000 - 10
  /\ pulses["Y"] = 10

=============================================================================
